---- MODULE Spec2Model ----
(***************************************************************************)
(* A model of src/src/lib.rs of the Typst compiler: the Feedback and Pass  *)
(* primitives and the Typesetter orchestrator (parse -> layout -> merge).  *)
(* The parser, the layout engine, the style tables and the span Offset     *)
(* trait live in other modules of the crate; they are modelled from their  *)
(* documented interfaces only.                                             *)
(***************************************************************************)
EXTENDS Integers, Sequences, FiniteSets, TLC

VARIABLES
    \* ---- Feedback algebra (Feedback::new / merge / extend / extend_offset)
    fa, fb, fc,     \* three feedback values drawn at start
    acc,            \* a feedback that is extended in place (the `&mut self`)
    last,           \* the last call on acc: op, argument, offset, acc before it
    nops,           \* number of calls made on acc
    merged,         \* results of the merge calls on fa, fb, fc
    \* ---- Pass::map
    pass0,          \* the pass a chain of map calls starts from
    pass,           \* the pass after the chain so far
    applied,        \* the functions applied so far, in order
    \* ---- Typesetter
    source,         \* the source text this run's calls are given
    style,          \* Typesetter.style  (LayoutStyle: text, page)
    parse_state,    \* Typesetter.parse_state
    loader,         \* Typesetter.loader: the handle of the shared font loader
    configured,     \* what the caller configured: default, then the setters' arguments
    calls           \* the parse / layout / typeset calls made, per call slot

fbvars   == <<fa, fb, fc, acc, last, nops, merged>>
passvars == <<pass0, pass, applied>>
tsvars   == <<source, style, parse_state, loader, configured, calls>>
vars     == <<fbvars, passvars, tsvars>>

----------------------------------------------------------------------------
(* Bounds of the model *)

\* entries (diagnostics plus decorations) held by the drawn feedbacks, in total
MaxEntries == 3
\* calls of extend / extend_offset made on acc
MaxOps == 2
\* length of a chain of Pass::map calls
MaxMaps == 2

SeqUpTo(S, n) == UNION {[1..k -> S] : k \in 0..n}

----------------------------------------------------------------------------
(* Spans, diagnostics, decorations *)

Span(s, e) == [start |-> s, end |-> e]
Spanned(v, s, e) == [v |-> v, span |-> Span(s, e)]

DiagItems == {Spanned("error", 0, 1), Spanned("warning", 1, 2)}
DecoItems == {Spanned("ValidFuncName", 0, 1), Spanned("InvalidFuncName", 2, 3)}
Offsets   == {1, 2}

Size(f) == Len(f.diagnostics) + Len(f.decorations)

FeedbacksUpTo(n) ==
    {f \in [diagnostics: SeqUpTo(DiagItems, n), decorations: SeqUpTo(DecoItems, n)] :
        Size(f) <= n}

----------------------------------------------------------------------------
(* Feedback *)

\* Feedback::new
FeedbackNew == [diagnostics |-> <<>>, decorations |-> <<>>]

\* Vec::extend(iter): push every element of iter, in iteration order
RECURSIVE VecExtend(_, _)
VecExtend(v, it) ==
    IF it = <<>> THEN v ELSE VecExtend(Append(v, Head(it)), Tail(it))

\* Feedback::extend(&mut self, other): the value of self afterwards
ExtendSwapped(self, other) ==
    [diagnostics |-> VecExtend(other.diagnostics, self.diagnostics),
     decorations |-> VecExtend(other.decorations, self.decorations)]
Extend(self, other) ==
    [diagnostics |-> VecExtend(self.diagnostics, other.diagnostics),
     decorations |-> VecExtend(self.decorations, other.decorations)]

\* Feedback::merge(a, b)
MergeDropsDecorations(a, b) ==
    [diagnostics |-> VecExtend(a.diagnostics, b.diagnostics),
     decorations |-> a.decorations]
Merge(a, b) == Extend(a, b)

\* Offset for Pos / Span: the position translated by `by`
OffsetPos(p, by) == p + by
OffsetSpan(s, by) == Span(OffsetPos(s.start, by), OffsetPos(s.end, by))
\* Offset for SpanVec<T>: every entry's span translated, entries and order kept
OffsetVec(v, by) == [i \in 1..Len(v) |-> [v[i] EXCEPT !.span = OffsetSpan(v[i].span, by)]]

\* Feedback::extend_offset(&mut self, more, offset): the value of self afterwards
ExtendOffsetWhole(self, more, offset) ==
    [diagnostics |-> OffsetVec(VecExtend(self.diagnostics, more.diagnostics), offset),
     decorations |-> OffsetVec(VecExtend(self.decorations, more.decorations), offset)]
ExtendOffset(self, more, offset) ==
    [diagnostics |-> VecExtend(self.diagnostics, OffsetVec(more.diagnostics, offset)),
     decorations |-> VecExtend(self.decorations, OffsetVec(more.decorations, offset))]

----------------------------------------------------------------------------
(* Pass *)

Outputs == {0, 1}
MapFns  == [Outputs -> Outputs]

\* Pass::new
PassNew(output, feedback) == [output |-> output, feedback |-> feedback]

\* Pass::map(self, f)
PassMapClearsFeedback(p, f) == [output |-> f[p.output], feedback |-> FeedbackNew]
PassMap(p, f) == [output |-> f[p.output], feedback |-> p.feedback]

----------------------------------------------------------------------------
(* Styles (crate::style) and geometry (crate::geom) *)

\* call slots: calls that can be alive or finished at the same time
MaxCalls == 2
\* tokens of a source text
MaxSrcLen == 2

Slots == 1..MaxCalls

Size2(x, y) == [x |-> x, y |-> y]
Sides(l, t, r, b) == [left |-> l, top |-> t, right |-> r, bottom |-> b]

TextA == [font |-> "A", size |-> 1]
TextB == [font |-> "B", size |-> 2]
TextStyles == {TextA, TextB}

PageSmall == [size |-> Size2(4, 4), margins |-> Sides(1, 1, 1, 1)]
PageTall  == [size |-> Size2(4, 5), margins |-> Sides(1, 1, 1, 1)]
\* every page style of the model leaves a content area that holds any one node
PageStyles == {PageSmall, PageTall}

\* PageStyle::margins()
Margins(page) == page.margins
\* Size::unpadded(padding)
Unpadded(size, padding) ==
    Size2(size.x - padding.left - padding.right, size.y - padding.top - padding.bottom)
\* LayoutSpace::usable()
Usable(space) == Unpadded(space.size, space.padding)

\* LayoutStyle::default()
DefaultStyle == [text |-> TextA, page |-> PageSmall]
\* Scope::with_std(): the names of the standard library's functions
StdScope == {"f"}

Null == [none |-> TRUE]

----------------------------------------------------------------------------
(* The parser (crate::syntax::parsing::parse). A source is a sequence of   *)
(* tokens: "w" a word, "f" and "g" calls of the functions f and g. A call  *)
(* of a function the scope does not hold is an error and yields no node.   *)

Tokens  == {"w", "f", "g"}
Sources == SeqUpTo(Tokens, MaxSrcLen)

RECURSIVE ParseFrom(_, _, _, _, _)
ParseFrom(src, i, start, state, p) ==
    IF i > Len(src) THEN p
    ELSE LET tok == src[i]
             s   == start + (i - 1)
             e   == start + i
         IN  IF tok = "w" THEN
                 ParseFrom(src, i + 1, start, state,
                     [p EXCEPT !.output = Append(@, [kind |-> "text", name |-> tok, span |-> Span(s, e)])])
             ELSE IF tok \in state.scope THEN
                 ParseFrom(src, i + 1, start, state,
                     [p EXCEPT !.output = Append(@, [kind |-> "call", name |-> tok, span |-> Span(s, e)]),
                               !.feedback.decorations = Append(@, Spanned("ValidFuncName", s, e))])
             ELSE
                 ParseFrom(src, i + 1, start, state,
                     [p EXCEPT !.feedback.diagnostics = Append(@, Spanned("error", s, e)),
                               !.feedback.decorations = Append(@, Spanned("InvalidFuncName", s, e))])

\* parse(src, start, &state) -> Pass<SyntaxTree>
ParseSrc(src, start, state) == ParseFrom(src, 1, start, state, PassNew(<<>>, FeedbackNew))

----------------------------------------------------------------------------
(* The layout engine (crate::layout::layout). Nodes are stacked along the  *)
(* secondary axis; a text node is as high as the font size, a call node    *)
(* has height 1 and reports a warning and a decoration at its span.        *)

Extent(node, st) == IF node.kind = "text" THEN st.text.size ELSE 1

NodeFeedback(node) ==
    IF node.kind = "call"
    THEN [diagnostics |-> <<Spanned("warning", node.span.start, node.span.end)>>,
          decorations |-> <<Spanned("ArgumentKey", node.span.start, node.span.end)>>]
    ELSE FeedbackNew

\* a finished box: the space it was laid out in, its size, the nodes placed
FinishBox(space, items, used) ==
    [space |-> space,
     size  |-> Size2(IF space.expansion.horizontal THEN Usable(space).x ELSE 0,
                     IF space.expansion.vertical THEN Usable(space).y ELSE used),
     items |-> items]

RECURSIVE Place(_, _, _, _, _, _, _)
Place(nodes, ctx, st, boxes, items, used, fbk) ==
    LET first == ctx.spaces[1]
        cap   == Usable(first).y
    IN  IF nodes = <<>> THEN
            PassNew(Append(boxes, FinishBox(first, items, used)), fbk)
        ELSE LET n == Head(nodes)
                 h == Extent(n, st)
             IN  IF used + h <= cap THEN
                     Place(Tail(nodes), ctx, st, boxes,
                           Append(items, [span |-> n.span, at |-> used, extent |-> h]),
                           used + h, Extend(fbk, NodeFeedback(n)))
                 ELSE IF ctx.repeat /\ ~ctx.nested /\ used > 0 THEN
                     \* finish the box, start a fresh space like the first one, retry
                     \* (used > 0: a fresh space does not help a node an empty one cannot hold)
                     Place(nodes, ctx, st, Append(boxes, FinishBox(first, items, used)),
                           <<>>, 0, fbk)
                 ELSE
                     \* no further space: clip, report, drop the siblings that remain
                     PassNew(Append(boxes, FinishBox(first, items, used)),
                             Extend(fbk, [diagnostics |-> <<Spanned("overflow", n.span.start, n.span.end)>>,
                                          decorations |-> <<>>]))

\* layout(&tree, ctx).await -> Pass<MultiLayout>
LayoutEngine(tree, ctx, st) == Place(tree, ctx, st, <<>>, <<>>, 0, FeedbackNew)

----------------------------------------------------------------------------
(* Typesetter *)

\* the three fields of the struct
Typesetter(l, s, ps) == [loader |-> l, style |-> s, parse_state |-> ps]
Self == Typesetter(loader, style, parse_state)

\* Typesetter::new(loader)
TypesetterNew(l) == Typesetter(l, DefaultStyle, [scope |-> StdScope])

\* Typesetter::set_text_style(&mut self, style): self afterwards
SetTextStyleResetsPage(self, t) == [self EXCEPT !.style = [text |-> t, page |-> DefaultStyle.page]]
SetTextStyleOp(self, t) == [self EXCEPT !.style.text = t]

\* Typesetter::set_page_style(&mut self, style): self afterwards
SetPageStyleOp(self, p) == [self EXCEPT !.style.page = p]

\* the start position Typesetter::parse hands to the parser: Pos::ZERO
ParseStart == 0

\* Typesetter::parse(&self, src)
TypesetterParse(self, src) == ParseSrc(src, ParseStart, self.parse_state)

\* Typesetter::parse takes &self and lends &self.parse_state: the parser state
\* after a parse of src is the one before it
ParseStateLearnsNames(ps, src) ==
    [ps EXCEPT !.scope = @ \cup {src[i] : i \in {j \in 1..Len(src) : src[j] # "w"}}]
ParseStateAfter(ps, src) == ps

\* Typesetter::layout(&self, tree): the context handed to the engine. The
\* spaces and the base are computed values, the style and the loader references.
UnpaddedContext(self) ==
    LET margins == Margins(self.style.page)
    IN  [loader |-> "&self.loader",
         style  |-> "&self.style",
         base   |-> Unpadded(self.style.page.size, margins),
         spaces |-> << [size      |-> self.style.page.size,
                        padding   |-> Sides(0, 0, 0, 0),
                        expansion |-> [horizontal |-> TRUE, vertical |-> TRUE]] >>,
         repeat |-> TRUE,
         axes   |-> [primary |-> "LTT", secondary |-> "TTB"],
         align  |-> [primary |-> "Start", secondary |-> "Start"],
         nested |-> FALSE]
NestedContext(self) ==
    LET margins == Margins(self.style.page)
    IN  [loader |-> "&self.loader",
         style  |-> "&self.style",
         base   |-> Unpadded(self.style.page.size, margins),
         spaces |-> << [size      |-> self.style.page.size,
                        padding   |-> margins,
                        expansion |-> [horizontal |-> TRUE, vertical |-> TRUE]] >>,
         repeat |-> TRUE,
         axes   |-> [primary |-> "LTT", secondary |-> "TTB"],
         align  |-> [primary |-> "Start", secondary |-> "Start"],
         nested |-> TRUE]
LayoutContext(self) ==
    LET margins == Margins(self.style.page)
    IN  [loader |-> "&self.loader",
         style  |-> "&self.style",
         base   |-> Unpadded(self.style.page.size, margins),
         spaces |-> << [size      |-> self.style.page.size,
                        padding   |-> margins,
                        expansion |-> [horizontal |-> TRUE, vertical |-> TRUE]] >>,
         repeat |-> TRUE,
         axes   |-> [primary |-> "LTT", secondary |-> "TTB"],
         align  |-> [primary |-> "Start", secondary |-> "Start"],
         nested |-> FALSE]

\* what a context's style reference reads, given the typesetter it points into
CtxStyle(ctx, self) == IF ctx.style = "&self.style" THEN self.style ELSE ctx.style

\* Typesetter::layout(&self, tree), run from the call to its end
TypesetterLayout(self, tree) ==
    LET ctx == LayoutContext(self) IN LayoutEngine(tree, ctx, CtxStyle(ctx, self))

\* Typesetter::typeset, after the layout returned: merge the feedback
TypesetFinishOffset(parsed, layouted) ==
    PassNew(layouted.output,
            ExtendOffset(parsed.feedback, layouted.feedback, Len(parsed.output)))
TypesetFinish(parsed, layouted) ==
    PassNew(layouted.output, Merge(parsed.feedback, layouted.feedback))

\* A future returned by layout / typeset borrows &self until it completes or is
\* dropped; set_text_style / set_page_style take &mut self and cannot run meanwhile.
NeverBorrowed(cs) == FALSE
Borrowed(cs) == \E i \in Slots : cs[i].pc \in {"created", "engine"}

----------------------------------------------------------------------------
(* Calls *)

\* a new call takes the first free slot
Free(i) == calls[i].kind = "none" /\ \A j \in 1..(i - 1) : calls[j].kind # "none"

Idle == [kind |-> "none", pc |-> "idle", src |-> <<>>, tree |-> <<>>, at |-> Null,
         pargs |-> Null, parsed |-> Null, ctx |-> Null, read |-> Null, result |-> Null]

\* the typesetter and the configuration a call started from
AtStart == [self |-> Self, configured |-> configured]

SetTextStyle(t) ==
    /\ ~Borrowed(calls)
    /\ style' = SetTextStyleOp(Self, t).style
    /\ parse_state' = SetTextStyleOp(Self, t).parse_state
    /\ configured' = [configured EXCEPT !.text = t]
    /\ UNCHANGED <<source, loader, calls, fbvars, passvars>>

SetPageStyle(p) ==
    /\ ~Borrowed(calls)
    /\ style' = SetPageStyleOp(Self, p).style
    /\ parse_state' = SetPageStyleOp(Self, p).parse_state
    /\ configured' = [configured EXCEPT !.page = p]
    /\ UNCHANGED <<source, loader, calls, fbvars, passvars>>

\* parse(src): synchronous, returns at once
ParseCall(i) ==
    /\ Free(i)
    /\ calls' = [calls EXCEPT ![i] =
            [Idle EXCEPT !.kind = "parse", !.pc = "done", !.src = source,
                         !.pargs = [start |-> ParseStart, state |-> parse_state],
                         !.result = TypesetterParse(Self, source)]]
    /\ parse_state' = ParseStateAfter(parse_state, source)
    /\ UNCHANGED <<source, style, loader, configured, fbvars, passvars>>

\* layout(&tree), the tree being the one a fresh typesetter parses from the source:
\* the future is created, nothing has run yet
LayoutCall(i) ==
    /\ Free(i)
    /\ calls' = [calls EXCEPT ![i] =
            [Idle EXCEPT !.kind = "layout", !.pc = "created", !.src = source,
                         !.tree = TypesetterParse(TypesetterNew(loader), source).output,
                         !.at = AtStart]]
    /\ UNCHANGED <<source, style, parse_state, loader, configured, fbvars, passvars>>

\* typeset(src): the future is created, nothing has run yet
TypesetCall(i) ==
    /\ Free(i)
    /\ calls' = [calls EXCEPT ![i] =
            [Idle EXCEPT !.kind = "typeset", !.pc = "created", !.src = source, !.at = AtStart]]
    /\ UNCHANGED <<source, style, parse_state, loader, configured, fbvars, passvars>>

\* first poll: typeset parses; layout builds the context and enters the engine,
\* where the call is suspended
Poll(i) ==
    /\ calls[i].pc = "created"
    /\ \/ /\ calls[i].kind = "typeset"
          /\ LET parsed == TypesetterParse(Self, calls[i].src)
             IN  calls' = [calls EXCEPT ![i] =
                    [@ EXCEPT !.pc = "engine",
                              !.pargs = [start |-> ParseStart, state |-> parse_state],
                              !.parsed = parsed, !.tree = parsed.output,
                              !.ctx = LayoutContext(Self)]]
          /\ parse_state' = ParseStateAfter(parse_state, calls[i].src)
       \/ /\ calls[i].kind = "layout"
          /\ calls' = [calls EXCEPT ![i] = [@ EXCEPT !.pc = "engine", !.ctx = LayoutContext(Self)]]
          /\ UNCHANGED parse_state
    /\ UNCHANGED <<source, style, loader, configured, fbvars, passvars>>

\* the engine runs on, reading the style through the context, and the call returns
Resume(i) ==
    /\ calls[i].pc = "engine"
    /\ LET c  == calls[i]
           st == CtxStyle(c.ctx, Self)
           r  == LayoutEngine(c.tree, c.ctx, st)
       IN  calls' = [calls EXCEPT ![i] =
                [@ EXCEPT !.pc = "done", !.read = st,
                          !.result = IF c.kind = "typeset"
                                     THEN TypesetFinish(c.parsed, r)
                                     ELSE r]]
    /\ UNCHANGED <<source, style, parse_state, loader, configured, fbvars, passvars>>

\* the caller drops the future or the returned pass
Release(i) ==
    /\ calls[i].kind # "none"
    /\ calls' = [calls EXCEPT ![i] = Idle]
    /\ UNCHANGED <<source, style, parse_state, loader, configured, fbvars, passvars>>

FbIdle ==
    /\ fa = FeedbackNew /\ fb = FeedbackNew /\ fc = FeedbackNew
    /\ acc = FeedbackNew /\ last = Null /\ nops = 0 /\ merged = Null

PassIdle ==
    /\ pass0 = PassNew(0, FeedbackNew) /\ pass = PassNew(0, FeedbackNew) /\ applied = <<>>

TsInit ==
    /\ source \in Sources
    /\ style = TypesetterNew("fonts").style
    /\ parse_state = TypesetterNew("fonts").parse_state
    /\ loader = TypesetterNew("fonts").loader
    /\ configured = DefaultStyle
    /\ calls = [i \in Slots |-> Idle]

Init == TsInit /\ FbIdle /\ PassIdle

Next ==
    \/ \E t \in TextStyles : SetTextStyle(t)
    \/ \E p \in PageStyles : SetPageStyle(p)
    \/ \E i \in Slots : ParseCall(i)
    \/ \E i \in Slots : LayoutCall(i)
    \/ \E i \in Slots : TypesetCall(i)
    \/ \E i \in Slots : Poll(i)
    \/ \E i \in Slots : Resume(i)
    \/ \E i \in Slots : Release(i)

Spec == Init /\ [][Next]_vars

----------------------------------------------------------------------------
(* Feedback::merge / extend / extend_offset applied to drawn feedbacks *)

TsIdle ==
    /\ source = <<>>
    /\ style = TypesetterNew("fonts").style
    /\ parse_state = TypesetterNew("fonts").parse_state
    /\ loader = TypesetterNew("fonts").loader
    /\ configured = DefaultStyle
    /\ calls = [i \in Slots |-> Idle]

FbInit ==
    /\ fa \in FeedbacksUpTo(MaxEntries)
    /\ fb \in FeedbacksUpTo(MaxEntries - Size(fa))
    /\ fc \in FeedbacksUpTo(MaxEntries - Size(fa) - Size(fb))
    /\ acc = fa
    /\ last = Null
    /\ nops = 0
    /\ merged = Null

\* the merge calls on the drawn feedbacks
DoMerge ==
    /\ merged = Null
    /\ merged' = [ab    |-> Merge(fa, fb),
                  ab_c  |-> Merge(Merge(fa, fb), fc),
                  a_bc  |-> Merge(fa, Merge(fb, fc)),
                  new_a |-> Merge(FeedbackNew, fa),
                  a_new |-> Merge(fa, FeedbackNew)]
    /\ UNCHANGED <<fa, fb, fc, acc, last, nops, passvars, tsvars>>

\* acc.extend(other)
DoExtend(other) ==
    /\ nops < MaxOps
    /\ acc' = Extend(acc, other)
    /\ last' = [op |-> "extend", more |-> other, offset |-> 0, before |-> acc]
    /\ nops' = nops + 1
    /\ UNCHANGED <<fa, fb, fc, merged, passvars, tsvars>>

\* acc.extend_offset(more, offset)
DoExtendOffset(more, offset) ==
    /\ nops < MaxOps
    /\ acc' = ExtendOffset(acc, more, offset)
    /\ last' = [op |-> "extend_offset", more |-> more, offset |-> offset, before |-> acc]
    /\ nops' = nops + 1
    /\ UNCHANGED <<fa, fb, fc, merged, passvars, tsvars>>

InitFeedback == FbInit /\ PassIdle /\ TsIdle

NextFeedback ==
    \/ DoMerge
    \/ \E other \in {fb, fc} : DoExtend(other)
    \/ \E more \in {fb, fc}, offset \in Offsets : DoExtendOffset(more, offset)

SpecFeedback == InitFeedback /\ [][NextFeedback]_vars

----------------------------------------------------------------------------
(* A chain of Pass::map calls *)

PassInit ==
    /\ pass0 \in {PassNew(o, f) : o \in Outputs, f \in FeedbacksUpTo(MaxEntries)}
    /\ pass = pass0
    /\ applied = <<>>

\* pass = pass.map(f)
DoMap(f) ==
    /\ Len(applied) < MaxMaps
    /\ pass' = PassMap(pass, f)
    /\ applied' = Append(applied, f)
    /\ UNCHANGED <<pass0, fbvars, tsvars>>

InitPass == PassInit /\ FbIdle /\ TsIdle

NextPass == \E f \in MapFns : DoMap(f)

SpecPass == InitPass /\ [][NextPass]_vars

----------------------------------------------------------------------------
(* Properties *)

IsPrefix(u, v) == Len(u) <= Len(v) /\ \A i \in 1..Len(u) : v[i] = u[i]

\* v is u followed by the entries of m, each with its span moved by `by`
AppendedShifted(u, m, by, v) ==
    /\ Len(v) = Len(u) + Len(m)
    /\ \A i \in 1..Len(u) : v[i] = u[i]
    /\ \A j \in 1..Len(m) :
         /\ v[Len(u) + j].v = m[j].v
         /\ v[Len(u) + j].span.start = m[j].span.start + by
         /\ v[Len(u) + j].span.end = m[j].span.end + by

Kinds(v) == {v[i].v : i \in 1..Len(v)}
DiagKinds == {"error", "warning", "overflow"}
DecoKinds == {"ValidFuncName", "InvalidFuncName", "ArgumentKey"}

\* C1: merge(a, b) holds a's diagnostics followed by b's and a's decorations
\* followed by b's: order kept, nothing lost, nothing duplicated, and no
\* diagnostic among the decorations or decoration among the diagnostics.
C1_MergeConcatenates ==
    merged # Null =>
        /\ merged.ab.diagnostics = fa.diagnostics \o fb.diagnostics
        /\ merged.ab.decorations = fa.decorations \o fb.decorations
        /\ Kinds(merged.ab.diagnostics) \subseteq DiagKinds
        /\ Kinds(merged.ab.decorations) \subseteq DecoKinds

C1_Witness ==
    /\ merged # Null
    /\ Len(fa.diagnostics) >= 1 /\ Len(fb.diagnostics) >= 1
    /\ fa.diagnostics # fb.diagnostics
    /\ Len(merged.ab.decorations) >= 1

\* C2: after self.extend_offset(more, offset) the entries self held before are
\* unchanged and come first, followed by the entries of more in their order,
\* each span moved by offset exactly once.
C2_ExtendOffsetShiftsOnlyMore ==
    (last # Null /\ last.op = "extend_offset") =>
        /\ AppendedShifted(last.before.diagnostics, last.more.diagnostics,
                           last.offset, acc.diagnostics)
        /\ AppendedShifted(last.before.decorations, last.more.decorations,
                           last.offset, acc.decorations)

C2_Witness ==
    /\ last # Null /\ last.op = "extend_offset"
    /\ Len(last.before.diagnostics) >= 1
    /\ Len(last.more.diagnostics) >= 1
    /\ Len(last.more.decorations) >= 1
    /\ nops = 2

\* the outputs a chain of functions gives, applied in order
RECURSIVE ApplyAll(_, _)
ApplyAll(fs, x) == IF fs = <<>> THEN x ELSE ApplyAll(Tail(fs), Head(fs)[x])

\* C3: p.map(f) has output f(p.output) and the feedback of p, also over a
\* chain of map calls.
C3_MapKeepsFeedback ==
    /\ pass.feedback = pass0.feedback
    /\ pass.output = ApplyAll(applied, pass0.output)

C3_Witness ==
    /\ Len(applied) = 2
    /\ Len(pass0.feedback.diagnostics) >= 1 /\ Len(pass0.feedback.decorations) >= 1
    /\ pass.output # pass0.output

\* C8: merge is associative, Feedback::new() is empty and a left and right
\* identity of merge, and after any sequence of extend / extend_offset calls
\* the entries a feedback held before remain an unchanged prefix of its
\* diagnostics and of its decorations.
C8_MergeAssociativeKeepsPrefix ==
    /\ FeedbackNew.diagnostics = <<>> /\ FeedbackNew.decorations = <<>>
    /\ merged # Null =>
           /\ merged.ab_c = merged.a_bc
           /\ merged.new_a = fa
           /\ merged.a_new = fa
    /\ IsPrefix(fa.diagnostics, acc.diagnostics)
    /\ IsPrefix(fa.decorations, acc.decorations)
    /\ last # Null =>
           /\ IsPrefix(last.before.diagnostics, acc.diagnostics)
           /\ IsPrefix(last.before.decorations, acc.decorations)

C8_Witness ==
    /\ merged # Null
    /\ Size(fa) >= 1 /\ Size(fb) >= 1 /\ Size(fc) >= 1
    /\ nops = 2
    /\ Size(acc) = Size(fa) + Size(fb) + Size(fc)
    /\ Size(merged.ab_c) = Size(acc)

TypesetDone(i) == calls[i].kind = "typeset" /\ calls[i].pc = "done"
LayoutRan(i)   == calls[i].kind \in {"layout", "typeset"} /\ calls[i].pc = "done"

\* C4: typeset(source).feedback is parse(source).feedback followed by
\* layout(parse(source).output).feedback, no span moved, and the output is
\* the output of that layout.
C4_TypesetComposes ==
    \A i \in Slots : TypesetDone(i) =>
        LET c == calls[i]
            P == TypesetterParse(c.at.self, c.src)
            L == TypesetterLayout(c.at.self, P.output)
        IN  /\ c.result.output = L.output
            /\ c.result.feedback.diagnostics = P.feedback.diagnostics \o L.feedback.diagnostics
            /\ c.result.feedback.decorations = P.feedback.decorations \o L.feedback.decorations

C4_Witness ==
    \E i \in Slots :
        /\ TypesetDone(i)
        /\ Len(calls[i].parsed.feedback.diagnostics) >= 1
        /\ Len(calls[i].result.feedback.diagnostics) > Len(calls[i].parsed.feedback.diagnostics)
        /\ Len(calls[i].result.feedback.decorations) > Len(calls[i].parsed.feedback.decorations)

\* C5 as stated: the one layout space of the initial context equals the page
\* content area, the page size minus the margins.
C5_SpaceIsContentArea ==
    \A i \in Slots : calls[i].ctx # Null =>
        LET page == calls[i].at.self.style.page
            m    == page.margins
        IN  /\ Len(calls[i].ctx.spaces) = 1
            /\ calls[i].ctx.spaces[1].size =
                   Size2(page.size.x - m.left - m.right, page.size.y - m.top - m.bottom)

\* C5 amended: the context layout hands to the engine has exactly one space,
\* whose size is the page size and whose padding is the margins, so that its
\* usable area is the page content area (page size minus margins), which is
\* also the base; axes (LTT, TTB), alignment (Start, Start), repeat = true and
\* nested = false, built from the page style stored when the call was made.
C5_InitialContext ==
    \A i \in Slots : calls[i].ctx # Null =>
        LET ctx  == calls[i].ctx
            page == calls[i].at.self.style.page
            m    == page.margins
            area == Size2(page.size.x - m.left - m.right, page.size.y - m.top - m.bottom)
        IN  /\ Len(ctx.spaces) = 1
            /\ ctx.spaces[1].size = page.size
            /\ ctx.spaces[1].padding = m
            /\ ctx.spaces[1].expansion = [horizontal |-> TRUE, vertical |-> TRUE]
            /\ Usable(ctx.spaces[1]) = area
            /\ ctx.base = area
            /\ ctx.axes = [primary |-> "LTT", secondary |-> "TTB"]
            /\ ctx.align = [primary |-> "Start", secondary |-> "Start"]
            /\ ctx.repeat
            /\ ~ctx.nested

C5_Witness ==
    \E i \in Slots :
        /\ calls[i].kind = "layout" /\ calls[i].pc = "engine"
        /\ calls[i].at.self.style.page = PageTall

InProgress(i) == calls[i].pc \in {"created", "engine"}

RECURSIVE TotalExtent(_, _)
TotalExtent(tree, st) ==
    IF tree = <<>> THEN 0 ELSE Extent(Head(tree), st) + TotalExtent(Tail(tree), st)

C10_Frame ==
    /\ style = configured
    /\ parse_state = [scope |-> StdScope]
    /\ loader = "fonts"
    /\ \A i \in Slots : calls[i].pargs # Null =>
           /\ calls[i].pargs = [start |-> 0, state |-> [scope |-> StdScope]]
           /\ (calls[i].kind = "parse" =>
                   calls[i].result = ParseSrc(calls[i].src, 0, [scope |-> StdScope]))
           /\ (calls[i].kind = "typeset" =>
                   calls[i].parsed = ParseSrc(calls[i].src, 0, [scope |-> StdScope]))

C10_Witness ==
    \E i, j \in Slots :
        /\ calls[i].kind = "parse" /\ calls[i].pc = "done"
        /\ TypesetDone(j)
        /\ Len(calls[i].result.feedback.diagnostics) >= 1
        /\ style.text # DefaultStyle.text /\ style.page # DefaultStyle.page
        /\ calls[j].at.configured = DefaultStyle

====
